---- MODULE Spec2Model ----
(***************************************************************************)
(* The feature-selection notebook as a state machine.                      *)
(*                                                                         *)
(* The notebook has four code cells.  Each one re-reads the data set,      *)
(* slices it into the attribute matrix X and the label vector Y, builds    *)
(* one scikit-learn estimator with a literal configuration, fits it and    *)
(* prints a report.  The cells run in one Python kernel, one at a time,    *)
(* in whatever order the user runs them; the kernel's global names and     *)
(* numpy's print options are the state the cells share.  A cell that       *)
(* raises leaves the names it had not assigned yet as they were.           *)
(*                                                                         *)
(* The library calls are modelled by what they do in the scikit-learn      *)
(* release the notebook was recorded with (0.19, Python 3.6: the call      *)
(* RFE(model, 3) passes the retain count positionally).  Numbers are exact *)
(* rationals <<num, den>>; NaN is <<0, 0>>.  The singular value            *)
(* decomposition inside PCA is not computed: the model keeps the           *)
(* validation, the centring and the shapes of PCA's results only.          *)
(***************************************************************************)
EXTENDS Integers, Sequences, FiniteSets, TLC

(* ---- bounds ---------------------------------------------------------- *)
\* number of attribute columns (the notebook slices columns 0:8)
NumAttrs == 3
\* number of records in the data set
NumRows == 2
\* attribute values are 0..MaxVal (chi2 needs non-negative values)
MaxVal == 1
\* number of trees in the ensemble (n_estimators)
NumTrees == 3

\* numpy's default print precision, and the one cell 1 sets
DefaultPrecision == 8
CellPrecision == 3

Attrs == 1..NumAttrs
Rows == 1..NumRows
\* the counts a cell may be configured with, valid and invalid
Counts == (-1)..(NumAttrs + 1)

\* remote is the file behind the url.  X, Y, fit, features and model are the
\* kernel's global names of the same name: a cell rebinds the ones it assigns
\* and leaves the others as an earlier cell bound them.  precision is numpy's
\* print option.  pc, cell and cfg tell which cell is running with which
\* count, loop holds the locals of the library call under way, stdout is
\* what the running cell has printed and err the exception that ended it.
VARIABLES remote, X, Y, precision, pc, cell, cfg, fit, features, model, loop,
          stdout, err

vars == <<remote, X, Y, precision, pc, cell, cfg, fit, features, model, loop,
          stdout, err>>

(* ---- arithmetic ------------------------------------------------------ *)
Abs(n) == IF n < 0 THEN -n ELSE n

Min(a, b) == IF a <= b THEN a ELSE b

RECURSIVE GCD(_, _)
GCD(a, b) == IF b = 0 THEN a ELSE GCD(b, a % b)

NaN == <<0, 0>>

IsNaN(q) == q[2] = 0

\* the rational n/d in lowest terms, d > 0; x/0 is NaN (0/0 in IEEE)
Rat(n, d) ==
    IF d = 0 THEN NaN
    ELSE LET g == GCD(Abs(n), Abs(d))
             s == IF d < 0 THEN -1 ELSE 1
         IN  <<s * (n \div g), s * (d \div g)>>

RatAdd(p, q) ==
    IF IsNaN(p) \/ IsNaN(q) THEN NaN
    ELSE Rat(p[1] * q[2] + q[1] * p[2], p[2] * q[2])

RatDivInt(p, n) == IF IsNaN(p) THEN NaN ELSE Rat(p[1], p[2] * n)

\* IEEE "<": false as soon as one side is NaN
RatLess(p, q) == ~IsNaN(p) /\ ~IsNaN(q) /\ p[1] * q[2] < q[1] * p[2]

RECURSIVE SumOver(_, _)
SumOver(S, f) ==
    IF S = {} THEN 0
    ELSE LET x == CHOOSE y \in S : TRUE IN f[x] + SumOver(S \ {x}, f)

(* ---- the data set ---------------------------------------------------- *)
\* A record of the file: NumAttrs attribute values, then the class label.
\* The records enumerated are the graded ones: the first j attributes have
\* the value u, the others are 0.
Graded(j, u, c) ==
    [a \in 1..(NumAttrs + 1) |->
        IF a = NumAttrs + 1 THEN c ELSE IF a <= j THEN u ELSE 0]

Records == {Graded(j, u, c) : j \in 0..NumAttrs, u \in 1..MaxVal, c \in {0, 1}}

\* the records with the same value in every attribute
UniformRecords == {Graded(NumAttrs, u, c) : u \in 0..MaxVal, c \in {0, 1}}

\* lexicographic order on records
RECURSIVE RecLeq(_, _, _)
RecLeq(r, q, i) ==
    IF i > NumAttrs + 1 THEN TRUE
    ELSE IF r[i] # q[i] THEN r[i] < q[i]
    ELSE RecLeq(r, q, i + 1)

\* The files made of the given records.  Both classes occur, as the
\* classifiers of cells 3 and 7 require.  No estimator looks at the order of
\* the records, so the files are enumerated up to that order.
FilesOf(recs) ==
    {d \in [Rows -> recs] :
        /\ \E i, j \in Rows : d[i][NumAttrs + 1] # d[j][NumAttrs + 1]
        /\ \A i \in Rows : i = NumRows \/ RecLeq(d[i], d[i + 1], 1)}

\* the files the notebook may be given
Datasets == FilesOf(Records)

\* the files of uniform records
UniformFiles == FilesOf(UniformRecords)

\* X = array[:,0:8]
AttrsOf(array) == [i \in DOMAIN array |-> [a \in Attrs |-> array[i][a]]]

\* Y = array[:,8]
LabelsOf(array) == [i \in DOMAIN array |-> array[i][NumAttrs + 1]]

None == <<>>

(* ---- printing -------------------------------------------------------- *)
\* round(|q| * 10^p), carried digit by digit; returns <<quotient, remainder>>
RECURSIVE Scaled(_, _, _)
Scaled(n, d, p) ==
    IF p = 0 THEN <<n \div d, n % d>>
    ELSE LET s == Scaled(n, d, p - 1)
         IN  <<10 * s[1] + (10 * s[2]) \div d, (10 * s[2]) % d>>

\* round half to even, as numpy's float formatting does on an exact tie
Rounded(n, d, p) ==
    LET s == Scaled(n, d, p)
    IN  IF 2 * s[2] > d \/ (2 * s[2] = d /\ s[1] % 2 = 1)
        THEN s[1] + 1 ELSE s[1]

\* drop trailing zeros of the fraction: <<digits, number of decimals>>
RECURSIVE Trim(_, _)
Trim(r, e) == IF e > 0 /\ r % 10 = 0 THEN Trim(r \div 10, e - 1) ELSE <<r, e>>

\* one float in fixed notation ("%.pf", trailing zeros dropped): sign,
\* digits, decimals; a negative number keeps its sign when it rounds to
\* zero ("-0.")
PrintNum(q, p) ==
    IF IsNaN(q) THEN <<"nan", 0, 0>>
    ELSE LET t == Trim(Rounded(Abs(q[1]), q[2], p), p)
         IN  <<IF q[1] < 0 THEN "-" ELSE "", t[1], t[2]>>

RECURSIVE Pow10(_)
Pow10(e) == IF e = 0 THEN 1 ELSE 10 * Pow10(e - 1)

\* floor(log10(n/d)) of a positive number n/d
RECURSIVE Exponent(_, _)
Exponent(n, d) ==
    IF n < d THEN Exponent(10 * n, d) - 1
    ELSE IF n \div d >= 10 THEN Exponent(n, 10 * d) + 1
    ELSE 0

\* one float in exponent notation ("%.pe"): sign, the p + 1 digits of the
\* mantissa, p, exponent; the value is mantissa * 10^(exponent - p)
PrintExp(q, p) ==
    IF IsNaN(q) THEN <<"nan", 0, 0>>
    ELSE IF q[1] = 0 THEN <<"", 0, p, 0>>
    ELSE LET n == Abs(q[1])
             e == Exponent(n, q[2])
             m == IF e >= 0 THEN Rounded(n, q[2] * Pow10(e), p)
                  ELSE Rounded(n * Pow10(-e), q[2], p)
             carry == m = Pow10(p + 1)
         IN  <<IF q[1] < 0 THEN "-" ELSE "",
               IF carry THEN Pow10(p) ELSE m,
               p,
               IF carry THEN e + 1 ELSE e>>

\* the magnitudes of the entries that are neither zero nor NaN
NonZero(S) == {<<Abs(q[1]), q[2]>> : q \in {r \in S : ~IsNaN(r) /\ r[1] # 0}}

\* p < q for magnitudes, compared by integer parts and then by the
\* reciprocals of the fractions, which keeps the integers small
RECURSIVE MagLess(_, _)
MagLess(p, q) ==
    LET ip == p[1] \div p[2]
        iq == q[1] \div q[2]
        rp == p[1] % p[2]
        rq == q[1] % q[2]
    IN  IF ip # iq THEN ip < iq
        ELSE IF rq = 0 THEN FALSE
        ELSE IF rp = 0 THEN TRUE
        ELSE MagLess(<<q[2], rq>>, <<p[2], rp>>)

\* FloatFormat.fillFormat: the whole array is printed in exponent notation
\* when its largest magnitude reaches 1e8, its smallest non-zero magnitude
\* is below 1e-4, or the two are more than a factor 1000 apart
ExpFormat(S) ==
    LET nz == NonZero(S)
    IN  /\ nz # {}
        /\ LET max == CHOOSE q \in nz : \A r \in nz : ~MagLess(q, r)
                min == CHOOSE q \in nz : \A r \in nz : ~MagLess(r, q)
            IN  \/ ~MagLess(max, <<100000000, 1>>)
                \/ MagLess(min, <<1, 10000>>)
                \/ MagLess(<<1000 * min[1], min[2]>>, max)

\* one float of an array, in the notation chosen for the array
FormatFloat(q, p, exp) == IF exp THEN PrintExp(q, p) ELSE PrintNum(q, p)

\* print(<float array>) under numpy.set_printoptions(precision=p)
PrintArray(v, p) ==
    LET exp == ExpFormat({v[i] : i \in DOMAIN v})
    IN  [i \in DOMAIN v |-> FormatFloat(v[i], p, exp)]

\* print(<float matrix>): one notation for all the rows
PrintMatrix(m, p) ==
    LET exp == ExpFormat(UNION {{m[i][j] : j \in DOMAIN m[i]} : i \in DOMAIN m})
    IN  [i \in DOMAIN m |->
            [j \in DOMAIN m[i] |-> FormatFloat(m[i][j], p, exp)]]

\* print(<float array>) of an array whose numbers are not computed here:
\* its shape and the precision it is formatted with
PrintShape(shape, p) == [shape |-> shape, precision |-> p]

(* ---- cell 1: SelectKBest(score_func=chi2, k) ------------------------- *)
ClassCount(y, c) == Cardinality({i \in DOMAIN y : y[i] = c})

\* observed = Y.T * X : the sum of attribute a over the records of class c
Observed(x, y, a, c) ==
    SumOver({i \in DOMAIN x : y[i] = c}, [i \in DOMAIN x |-> x[i][a]])

\* feature_count = X.sum(axis=0)
FeatureCount(x, a) == SumOver(DOMAIN x, [i \in DOMAIN x |-> x[i][a]])

\* chi2(X, y)[a] = sum over the classes of (observed - expected)^2 / expected
\* with expected = class_prob * feature_count; 0/0 gives NaN
Chi2Term(x, y, a, c) ==
    LET n  == Cardinality(DOMAIN x)
        nc == ClassCount(y, c)
        f  == FeatureCount(x, a)
        o  == Observed(x, y, a, c)
    IN  Rat((n * o - nc * f) * (n * o - nc * f), n * nc * f)

Chi2(x, y) ==
    [a \in Attrs |-> RatAdd(Chi2Term(x, y, a, 0), Chi2Term(x, y, a, 1))]

\* _clean_nans then compare: NaN counts as the smallest float
CleanLess(p, q) ==
    IF IsNaN(q) THEN FALSE
    ELSE IF IsNaN(p) THEN TRUE
    ELSE RatLess(p, q)

\* position (1-based) of index i in numpy.argsort(scores, kind="mergesort")
SortPos(scores, i) ==
    1 + Cardinality({j \in DOMAIN scores :
                        \/ CleanLess(scores[j], scores[i])
                        \/ (~CleanLess(scores[i], scores[j]) /\ j < i)})

\* a selector that keeps the first k of the sorted order instead of the last k
SupportMaskLowest(scores, k) ==
    IF k = 0 THEN [a \in DOMAIN scores |-> FALSE]
    ELSE [a \in DOMAIN scores |-> SortPos(scores, a) <= k]

\* SelectKBest._get_support_mask
SupportMask(scores, k) ==
    IF k = 0 THEN [a \in DOMAIN scores |-> FALSE]
    ELSE [a \in DOMAIN scores |-> SortPos(scores, a) > Len(scores) - k]

\* the increasing sequence of the members of a set of integers
RECURSIVE SetToSeq(_)
SetToSeq(S) ==
    IF S = {} THEN <<>>
    ELSE LET m == CHOOSE x \in S : \A y \in S : x <= y
         IN  <<m>> \o SetToSeq(S \ {m})

\* X[:, mask]
SelectColumns(x, mask) ==
    LET cols == SetToSeq({a \in DOMAIN mask : mask[a]})
    IN  [i \in DOMAIN x |-> [j \in DOMAIN cols |-> x[i][cols[j]]]]

\* SelectorMixin.transform: no column selected gives an n x 0 matrix
Transform(x, mask) == SelectColumns(x, mask)

\* an integer of the data as the float the kernel holds
AsFloat(m) == [i \in DOMAIN m |-> [j \in DOMAIN m[i] |-> <<m[i][j], 1>>]]

\* features[0:5,:]
Head5(m) == [i \in 1..Min(5, Len(m)) |-> m[i]]

\* a parameter check without the upper limit
KBestParamsNoUpper(k) == 0 <= k

\* SelectKBest._check_params: k must be "all" or 0 <= k <= n_features
KBestParamsOK(k) == 0 <= k /\ k <= NumAttrs

RunCell1(k) ==
    /\ pc = "idle"
    /\ X' = AttrsOf(remote)
    /\ Y' = LabelsOf(remote)
    /\ cell' = 1
    /\ cfg' = k
    /\ loop' = None
    /\ IF KBestParamsOK(k)
       THEN LET scores == Chi2(AttrsOf(remote), LabelsOf(remote))
                mask   == SupportMask(scores, k)
                feats  == Transform(AttrsOf(remote), mask)
            IN  /\ fit' = [kind |-> "SelectKBest", scores |-> scores,
                           support |-> mask]
                /\ precision' = CellPrecision
                /\ features' = feats
                /\ stdout' = <<PrintArray(scores, CellPrecision),
                               PrintMatrix(AsFloat(Head5(feats)), CellPrecision)>>
                /\ err' = ""
       ELSE \* test.fit raises: fit and features stay as they were bound
            /\ stdout' = <<>>
            /\ err' = "ValueError"
            /\ UNCHANGED <<fit, features, precision>>
    /\ UNCHANGED <<remote, pc, model>>

(* ---- cell 3: RFE(LogisticRegression(), n) ---------------------------- *)
\* The coefficients a fitted LogisticRegression may report for a column.  The
\* loop uses them only through the order of their squares, and three values
\* are enough for a round to rank any remaining column last.
Coefs == {-1, 0, 1}

CountTrue(mask) == Cardinality({a \in DOMAIN mask : mask[a]})

\* position (1-based) of index i in numpy.argsort(keys); equal keys keep
\* their order (numpy sorts short arrays by insertion)
IntSortPos(keys, i) ==
    1 + Cardinality({j \in DOMAIN keys :
                        keys[j] < keys[i] \/ (keys[j] = keys[i] /\ j < i)})

\* safe_sqr(coefs)
SafeSqr(coefs) == [i \in DOMAIN coefs |-> coefs[i] * coefs[i]]

\* RFE's step parameter (default 1)
RFEStepSize == 1

\* a threshold with the subtraction the wrong way round
ThresholdFlipped(support, n) == Min(RFEStepSize, n - CountTrue(support))

\* threshold = min(step, np.sum(support_) - n_features_to_select)
Threshold(support, n) == Min(RFEStepSize, CountTrue(support) - n)

\* a slice that takes one column more than the threshold
DiscardedOneMore(support, coefs, n) ==
    LET feats == SetToSeq({a \in DOMAIN support : support[a]})
        sq    == SafeSqr(coefs)
    IN  {feats[i] : i \in {j \in DOMAIN feats :
                              IntSortPos(sq, j) <= Threshold(support, n) + 1}}

\* features[ranks][:threshold] : the columns one round discards
Discarded(support, coefs, n) ==
    LET feats == SetToSeq({a \in DOMAIN support : support[a]})
        sq    == SafeSqr(coefs)
    IN  {feats[i] : i \in {j \in DOMAIN feats :
                              IntSortPos(sq, j) <= Threshold(support, n)}}

\* a ranking that only tells retained from discarded
NextRankingFlat(ranking, sup) ==
    [a \in DOMAIN ranking |-> IF sup[a] THEN 1 ELSE 2]

\* ranking_[np.logical_not(support_)] += 1
NextRanking(ranking, sup) ==
    [a \in DOMAIN ranking |-> IF sup[a] THEN ranking[a] ELSE ranking[a] + 1]

\* when a column was discarded: one more than the number of columns
\* discarded in the rounds before (0 for a column still retained)
ElimStamp(support) == NumAttrs - CountTrue(support) + 1

\* while np.sum(support_) > n_features_to_select
RFELoopCond(support, n) == CountTrue(support) > n

Cell3Start(n) ==
    /\ pc = "idle"
    /\ X' = AttrsOf(remote)
    /\ Y' = LabelsOf(remote)
    /\ cell' = 3
    /\ cfg' = n
    /\ loop' = [support |-> [a \in Attrs |-> TRUE],
                ranking |-> [a \in Attrs |-> 1],
                elim    |-> [a \in Attrs |-> 0]]
    /\ pc' = "rfe"
    \* model = LogisticRegression(); RFE fits clones of it
    /\ model' = [kind |-> "LogisticRegression"]
    /\ stdout' = <<>>
    /\ err' = ""
    /\ UNCHANGED <<remote, precision, fit, features>>

\* one round of the elimination loop: fit a clone of the estimator on the
\* remaining columns, rank them by squared coefficient, discard the weakest
RFERound ==
    /\ pc = "rfe"
    /\ RFELoopCond(loop.support, cfg)
    /\ IF CountTrue(loop.support) = 0
       THEN \* estimator.fit on a matrix without columns raises
            /\ pc' = "idle"
            /\ err' = "ValueError"
            /\ UNCHANGED loop
       ELSE /\ \E coefs \in [1..CountTrue(loop.support) -> Coefs] :
                 LET gone == Discarded(loop.support, coefs, cfg)
                     sup  == [a \in Attrs |-> loop.support[a] /\ a \notin gone]
                 IN  loop' = [support |-> sup,
                              ranking |-> NextRanking(loop.ranking, sup),
                              elim    |-> [a \in Attrs |->
                                             IF a \in gone
                                             THEN ElimStamp(loop.support)
                                             ELSE loop.elim[a]]]
            /\ UNCHANGED <<pc, err>>
    /\ UNCHANGED <<remote, X, Y, precision, cell, cfg, fit, features, model,
                   stdout>>

\* after the loop: fit the final estimator on the retained columns, set
\* n_features_, support_, ranking_; then the cell prints them
RFEFinish ==
    /\ pc = "rfe"
    /\ ~RFELoopCond(loop.support, cfg)
    /\ pc' = "idle"
    /\ IF CountTrue(loop.support) = 0
       THEN /\ err' = "ValueError"
            /\ UNCHANGED <<fit, stdout>>
       ELSE /\ fit' = [kind |-> "RFE",
                       n_features |-> CountTrue(loop.support),
                       support |-> loop.support,
                       ranking |-> loop.ranking]
            /\ stdout' = << <<"Num Features: %d", CountTrue(loop.support)>>,
                            <<"Selected Features: %s", loop.support>>,
                            <<"Feature Ranking: %s", loop.ranking>> >>
            /\ UNCHANGED err
    /\ UNCHANGED <<remote, X, Y, precision, cell, cfg, features, model, loop>>

(* ---- cell 5: PCA(n_components=c) ------------------------------------- *)
\* svd_solver="auto": small inputs and out-of-range counts go to "full"
SvdSolver(nrows, c) ==
    IF (IF nrows > NumAttrs THEN nrows ELSE NumAttrs) <= 500 THEN "full"
    ELSE IF c >= 1 /\ 10 * c < 8 * Min(nrows, NumAttrs) THEN "randomized"
    ELSE "full"

\* _fit_full: 0 <= n_components <= n_features;
\* _fit_truncated: 1 <= n_components <= n_features
PCAParamsOK(nrows, c) ==
    IF SvdSolver(nrows, c) = "full"
    THEN 0 <= c /\ c <= NumAttrs
    ELSE 1 <= c /\ c <= NumAttrs

\* X -= mean_ on PCA's own copy of X (copy=True), every entry times the
\* number of records so that it stays an integer
Centred(x) ==
    [i \in DOMAIN x |->
        [a \in Attrs |-> Len(x) * x[i][a] - FeatureCount(x, a)]]

\* PCA centring the caller's array in place (copy=False)
PCAFitArraysNoCopy(x) == [work |-> Centred(x), caller |-> Centred(x)]

\* check_array(X, copy=True) and the centring: the array PCA works on and
\* the caller's array afterwards
PCAFitArrays(x) == [work |-> Centred(x), caller |-> x]

RunCell5(c) ==
    /\ pc = "idle"
    /\ X' = IF PCAParamsOK(Len(remote), c)
            THEN PCAFitArrays(AttrsOf(remote)).caller
            ELSE AttrsOf(remote)
    /\ Y' = LabelsOf(remote)
    /\ cell' = 5
    /\ cfg' = c
    /\ IF PCAParamsOK(Len(remote), c)
       THEN LET x   == AttrsOf(remote)
                len == Min(c, Min(Len(x), NumAttrs))
            IN  /\ loop' = [work |-> PCAFitArrays(x).work]
                /\ fit' = [kind |-> "PCA",
                           n_components |-> c,
                           mean |-> [a \in Attrs |->
                                        Rat(FeatureCount(x, a), Len(x))],
                           evr_len |-> len]
                /\ stdout' = << <<"Explained Variance: %s",
                                  PrintShape(<<len>>, precision)>>,
                                PrintShape(<<len, NumAttrs>>, precision) >>
                /\ err' = ""
       ELSE \* pca.fit raises: fit stays as it was bound
            /\ loop' = None
            /\ stdout' = <<>>
            /\ err' = "ValueError"
            /\ UNCHANGED fit
    /\ UNCHANGED <<remote, precision, pc, features, model>>

(* ---- cell 7: ExtraTreesClassifier() ---------------------------------- *)
RECURSIVE Factorial(_)
Factorial(n) == IF n <= 1 THEN 1 ELSE n * Factorial(n - 1)

\* every impurity is a multiple of 1 / Scale
Scale == Factorial(NumRows)

RECURSIVE Isqrt(_, _)
Isqrt(n, r) == IF (r + 1) * (r + 1) > n THEN r ELSE Isqrt(n, r + 1)

\* max_features="auto" for a classifier: max(1, int(sqrt(n_features)))
MaxFeatures == IF Isqrt(NumAttrs, 0) < 1 THEN 1 ELSE Isqrt(NumAttrs, 0)

\* weighted_n_node_samples * gini(node), times Scale
WeightedGini(y, S) ==
    LET n  == Cardinality(S)
        n0 == Cardinality({i \in S : y[i] = 0})
        n1 == Cardinality({i \in S : y[i] = 1})
    IN  Scale * n - (Scale \div n) * (n0 * n0 + n1 * n1)

\* an impurity decrease with the sign the wrong way round
DecreaseFlipped(y, S, L) ==
    WeightedGini(y, L) + WeightedGini(y, S \ L) - WeightedGini(y, S)

\* what compute_feature_importances adds for a node split into L and S \ L
Decrease(y, S, L) ==
    WeightedGini(y, S) - WeightedGini(y, L) - WeightedGini(y, S \ L)

\* the columns that are not constant on the node's samples
NonConstant(x, S) == {a \in Attrs : \E i, j \in S : x[i][a] # x[j][a]}

\* the samples that go left for a threshold drawn in [v, next larger value)
LeftOf(x, S, a, v) == {i \in S : x[i][a] <= v}

\* the values of column a on S that a threshold can fall behind
Cuts(x, S, a) == {x[i][a] : i \in S} \ {x[i][a] : i \in {j \in S : \A m \in S : x[m][a] <= x[j][a]}}

\* the sets of non-constant columns RandomSplitter may evaluate at a node:
\* it draws columns without repetition until max_features columns are
\* visited and one of them is not constant
FeatureDraws(x, S) ==
    LET nc == NonConstant(x, S)
    IN  {F \in SUBSET nc :
            /\ F # {}
            /\ Cardinality(F) <= MaxFeatures
            /\ Cardinality(F) + (NumAttrs - Cardinality(nc)) >= MaxFeatures}

\* the splits <<column, left samples>> the splitter can settle on: the best
\* of one random threshold per evaluated column
Splits(x, y, S) ==
    {sp \in {<<a, LeftOf(x, S, a, v)>> : a \in NonConstant(x, S), v \in 0..MaxVal} :
        /\ sp[2] # {} /\ sp[2] # S
        /\ \E F \in FeatureDraws(x, S) :
              /\ sp[1] \in F
              /\ \E thr \in [F -> 0..MaxVal] :
                    /\ LeftOf(x, S, sp[1], thr[sp[1]]) = sp[2]
                    /\ \A g \in F :
                          /\ thr[g] \in Cuts(x, S, g)
                          /\ Decrease(y, S, LeftOf(x, S, g, thr[g]))
                                <= Decrease(y, S, sp[2])}

\* a node is a leaf when it has fewer than min_samples_split = 2 samples or
\* is pure
IsLeaf(y, S) == Cardinality(S) < 2 \/ WeightedGini(y, S) = 0

Zero == [a \in Attrs |-> 0]

VecAdd(u, v) == [a \in Attrs |-> u[a] + v[a]]

\* the unnormalised importances (times Scale) the subtree grown on the
\* samples S can have
RECURSIVE SubtreeImportances(_, _, _)
SubtreeImportances(x, y, S) ==
    IF IsLeaf(y, S) \/ Splits(x, y, S) = {} THEN {Zero}
    ELSE UNION {
            {VecAdd([a \in Attrs |->
                        IF a = sp[1] THEN Decrease(y, S, sp[2]) ELSE 0],
                    VecAdd(l, r)) :
                l \in SubtreeImportances(x, y, sp[2]),
                r \in SubtreeImportances(x, y, S \ sp[2])} :
            sp \in Splits(x, y, S)}

\* tree_.compute_feature_importances(normalize=True): divide by the weight
\* of the root, then by the sum when the sum is positive
Normalised(raw, nrows) ==
    LET total == SumOver(Attrs, raw)
    IN  IF total > 0 THEN [a \in Attrs |-> Rat(raw[a], total)]
        ELSE [a \in Attrs |-> Rat(raw[a], Scale * nrows)]

\* the feature_importances_ one fitted extra-tree can have
TreeImportances(x, y) ==
    {Normalised(raw, Len(x)) : raw \in SubtreeImportances(x, y, DOMAIN x)}

Cell7Start ==
    /\ pc = "idle"
    /\ X' = AttrsOf(remote)
    /\ Y' = LabelsOf(remote)
    /\ cell' = 7
    /\ cfg' = NumTrees
    /\ loop' = [done |-> 0, sum |-> [a \in Attrs |-> <<0, 1>>]]
    /\ pc' = "trees"
    \* model = ExtraTreesClassifier()
    /\ model' = [kind |-> "ExtraTreesClassifier", importances |-> None]
    /\ stdout' = <<>>
    /\ err' = ""
    /\ UNCHANGED <<remote, precision, fit, features>>

\* model.fit grows the trees one after the other, each on all the records
\* (bootstrap=False) and with its own random draws
FitTree ==
    /\ pc = "trees"
    /\ loop.done < NumTrees
    /\ \E imp \in TreeImportances(X, Y) :
          loop' = [done |-> loop.done + 1,
                   sum  |-> [a \in Attrs |-> RatAdd(loop.sum[a], imp[a])]]
    /\ UNCHANGED <<remote, X, Y, precision, pc, cell, cfg, fit, features,
                   model, stdout, err>>

\* feature_importances_ = sum(all_importances) / len(estimators_), printed
\* with whatever print options the kernel has
Cell7Finish ==
    /\ pc = "trees"
    /\ loop.done = NumTrees
    /\ LET imps == [a \in Attrs |-> RatDivInt(loop.sum[a], NumTrees)]
       IN  /\ model' = [kind |-> "ExtraTreesClassifier", importances |-> imps]
           /\ stdout' = <<PrintArray(imps, precision)>>
    /\ pc' = "idle"
    /\ loop' = None
    /\ UNCHANGED <<remote, X, Y, precision, cell, cfg, fit, features, err>>

\* a fresh kernel and a file behind the url
InitWith(files) ==
    /\ remote \in files
    /\ X = None
    /\ Y = None
    /\ precision = DefaultPrecision
    /\ pc = "idle"
    /\ cell = 0
    /\ cfg = 0
    /\ fit = None
    /\ features = None
    /\ model = None
    /\ loop = None
    /\ stdout = <<>>
    /\ err = ""

\* The whole notebook: any cell, any number of times, in any order.  Cell 3
\* reads the data only through the coefficients of the fitted model, which
\* are left free, so the files of uniform records are enough here.
Init == InitWith(UniformFiles)

Next ==
    \/ \E k \in Counts : RunCell1(k)
    \/ \E n \in Counts : Cell3Start(n)
    \/ RFERound
    \/ RFEFinish
    \/ \E c \in Counts : RunCell5(c)
    \/ Cell7Start
    \/ FitTree
    \/ Cell7Finish

Spec == Init /\ [][Next]_vars

\* cell 1 on its own, on every file
UniInit == InitWith(Datasets)

NextUni == \E k \in Counts : RunCell1(k)

UniSpec == UniInit /\ [][NextUni]_vars

\* cell 7 on its own, on every file
TreeInit == InitWith(Datasets)

NextTrees ==
    \/ Cell7Start
    \/ FitTree
    \/ Cell7Finish

TreeSpec == TreeInit /\ [][NextTrees]_vars

\* Cell 3 on its own, run once in a fresh kernel.  The kernel is
\* synchronous: once rfe.fit is entered, its loop is the only code that
\* runs, and it runs until it returns or raises.
NextRFE ==
    \/ (cell = 0 /\ \E n \in Counts : Cell3Start(n))
    \/ RFERound
    \/ RFEFinish

RFESpec == Init /\ [][NextRFE]_vars

LiveSpec ==
    /\ Init /\ [][NextRFE]_vars
    /\ WF_vars(RFERound) /\ WF_vars(RFEFinish)

(* ---- properties ------------------------------------------------------ *)
ValidCount(n) == 1 <= n /\ n <= NumAttrs

\* a cell has run to its end
Finished(c) == pc = "idle" /\ cell = c

\* score p ranks above score q; NaN ranks below every number
Higher(p, q) ==
    IF IsNaN(p) THEN FALSE
    ELSE IF IsNaN(q) THEN TRUE
    ELSE q[1] * p[2] < p[1] * q[2]

\* the matrix made of the columns S of x, in their original order
ColumnsOf(x, S) ==
    [i \in DOMAIN x |->
        [j \in 1..Cardinality(S) |->
            x[i][CHOOSE a \in S : Cardinality({b \in S : b < a}) = j - 1]]]

\* C1: for every k in 1..attribute_count the univariate selector succeeds,
\* its score array has attribute_count entries, and the transformed matrix
\* consists of exactly k original columns, none of them scoring below a
\* column that was left out.
C1_KBestSelectsTopK ==
    (Finished(1) /\ ValidCount(cfg)) =>
        /\ err = ""
        /\ Len(fit.scores) = NumAttrs
        /\ \A i \in DOMAIN features : Len(features[i]) = cfg
        /\ \E S \in SUBSET Attrs :
              /\ Cardinality(S) = cfg
              /\ features = ColumnsOf(X, S)
              /\ \A a \in S, b \in Attrs \ S :
                    ~Higher(fit.scores[b], fit.scores[a])

\* a run of cell 1 that had to choose: a kept column scores strictly above
\* a dropped one, and another dropped column has a NaN score
C1_Witness ==
    /\ Finished(1) /\ err = "" /\ cfg = 1
    /\ \E a, b, c \in Attrs :
          /\ fit.support[a] /\ ~fit.support[b] /\ ~fit.support[c]
          /\ Higher(fit.scores[a], fit.scores[b])
          /\ ~IsNaN(fit.scores[b])
          /\ IsNaN(fit.scores[c])

\* C2: for every retain-count n in 1..attribute_count, recursive
\* elimination succeeds with a mask of exactly n true entries and a rank
\* array holding the value 1 exactly n times.
C2_RFEMaskCount ==
    (Finished(3) /\ ValidCount(cfg)) =>
        /\ err = ""
        /\ CountTrue(fit.support) = cfg
        /\ Cardinality({a \in Attrs : fit.ranking[a] = 1}) = cfg
        /\ fit.n_features = cfg

\* recursive elimination finished after discarding all columns but one
C2_Witness ==
    /\ Finished(3) /\ err = "" /\ cfg = 1
    /\ CountTrue(fit.support) = 1

\* C4: the ensemble's importance array has attribute_count entries, none of
\* them negative (and none NaN).
C4_ImportancesNonNegative ==
    Finished(7) =>
        /\ Len(model.importances) = NumAttrs
        /\ \A a \in Attrs :
              ~IsNaN(model.importances[a]) /\ model.importances[a][1] >= 0

\* an ensemble whose trees split on different columns: two columns share
\* the importance
C4_Witness ==
    /\ Finished(7)
    /\ \E a, b \in Attrs :
          /\ a # b
          /\ model.importances[a][1] > 0
          /\ model.importances[b][1] > 0

\* A step of a cell that produces nothing: it binds no new selector and no
\* new matrix, the cell has printed nothing, and if the step ends the cell
\* it ends it with an error.
FatalStep ==
    /\ fit' = fit
    /\ features' = features
    /\ stdout' = <<>>
    /\ pc' = "idle" => err' # ""

\* C6 as stated: in cells 1, 3 and 5 a count above attribute_count, zero or
\* negative ends in an error and produces no score, mask or matrix.
C6_InvalidCountIsFatal ==
    [][(cell' \in {1, 3, 5} /\ ~ValidCount(cfg')) => FatalStep]_vars

\* the invalid counts the estimators do reject
Rejected(c, n) ==
    \/ n < 0
    \/ (n > NumAttrs /\ c \in {1, 5})
    \/ (n = 0 /\ c = 3)

\* C6 amended: a negative count is fatal in cells 1, 3 and 5, a count above
\* attribute_count is fatal for the univariate and the projection selector,
\* and a zero count is fatal for recursive elimination: the cell ends in an
\* error and produces no score, mask or matrix.
C6_RejectedCountIsFatal ==
    [][(cell' \in {1, 3, 5} /\ Rejected(cell', cfg')) => FatalStep]_vars

\* the univariate selector refused a count above attribute_count; the
\* kernel still holds the selector and the matrix of an earlier run
C6_Witness ==
    /\ Finished(1) /\ cfg = NumAttrs + 1
    /\ err = "ValueError" /\ stdout = <<>>
    /\ fit # None /\ fit.kind = "SelectKBest" /\ features # None

\* C7: whatever cells have run, X and Y hold the attribute and label
\* columns of the file as it was read.
C7_DatasetUnchanged ==
    (cell # 0) => (X = AttrsOf(remote) /\ Y = LabelsOf(remote))

\* PCA has centred its working copy, which now differs from X
C7_Witness ==
    /\ Finished(5) /\ err = ""
    /\ \E i \in DOMAIN X, a \in Attrs : loop.work[i][a] # Len(X) * X[i][a]

\* the report a cell prints when the notebook is run from top to bottom:
\* cell 1 has set the print precision to 3 before any array is printed
ReferenceReport ==
    IF cell = 1
    THEN <<PrintArray(fit.scores, CellPrecision),
           PrintMatrix(AsFloat(Head5(features)), CellPrecision)>>
    ELSE IF cell = 5
    THEN << <<"Explained Variance: %s",
              PrintShape(<<fit.evr_len>>, CellPrecision)>>,
            PrintShape(<<fit.evr_len, NumAttrs>>, CellPrecision) >>
    ELSE IF cell = 7
    THEN <<PrintArray(model.importances, CellPrecision)>>
    ELSE stdout

\* C8 as stated: in whatever order cells are run, a cell's report is the
\* one it prints in top-to-bottom order.
C8_ReportIndependentOfOrder ==
    (pc = "idle" /\ cell # 0 /\ err = "") => stdout = ReferenceReport

\* C9: after recursive elimination with retain-count n, the mask is true
\* exactly where the rank is 1, the ranks of the discarded columns are
\* exactly 2..attribute_count-n+1, and a column discarded earlier has a
\* strictly larger rank than one discarded later.
C9_RFERanks ==
    (Finished(3) /\ ValidCount(cfg) /\ err = "") =>
        /\ \A a \in Attrs : fit.support[a] <=> fit.ranking[a] = 1
        /\ {fit.ranking[a] : a \in {b \in Attrs : ~fit.support[b]}}
              = 2..(NumAttrs - cfg + 1)
        /\ \A a, b \in Attrs :
              (~fit.support[a] /\ ~fit.support[b] /\ loop.elim[a] < loop.elim[b])
                 => fit.ranking[a] > fit.ranking[b]

\* two columns were discarded in different rounds and a third was retained
C9_Witness ==
    /\ Finished(3) /\ err = ""
    /\ \E a, b, c \in Attrs :
          /\ fit.support[c]
          /\ loop.elim[a] > 0 /\ loop.elim[b] > loop.elim[a]

\* C10: once recursive elimination has started with a retain-count n in
\* 1..attribute_count, it reaches the end of the cell with exactly n columns
\* retained and its output printed.
C10_RFETerminates ==
    (pc = "rfe" /\ ValidCount(cfg))
        ~> (Finished(3) /\ err = "" /\ CountTrue(fit.support) = cfg
            /\ stdout # <<>>)

\* the loop is under way: a round has discarded a column and another round
\* is due
C10_Witness ==
    /\ pc = "rfe" /\ ValidCount(cfg)
    /\ CountTrue(loop.support) < NumAttrs
    /\ RFELoopCond(loop.support, cfg)
====
